---- MODULE Spec2Model ----
(***************************************************************************)
(* TwitterUserSessionStore: a store that reads a log of                    *)
(* user_id,timestamp,action lines and keeps, per user, the open session,   *)
(* the number of completed sessions and their incremental average.         *)
(*                                                                         *)
(* Strings of the program are modelled as follows: a user id and an action *)
(* are TLA+ strings, a timestamp is the sequence of its characters (the    *)
(* program stores the text and converts it with int() only in              *)
(* end_session).  An average is the exact rational <<n, d>> in lowest      *)
(* terms with d > 0 (Python 3 true division, in exact arithmetic).         *)
(***************************************************************************)
EXTENDS Integers, Sequences, FiniteSets, TLC

\* Bounds of the model.
MaxEvents == 3
MaxResidual == 1
MaxReload == 2

\* Inputs.
Users == {"u1", "u2"}
Timestamps == { <<"1","0","0">>, <<"2","0","0">>, <<"2","6","0">> }
Actions == {"open", "close"}

\* A parsed log line: user_id, timestamp, action = log_line.strip().split(",")
LogLines == Users \X Timestamps \X Actions
NoLine == <<>>

(***************************************************************************)
(* int(text) for an optionally signed decimal numeral.                     *)
(***************************************************************************)
DigitVal(c) ==
    CASE c = "0" -> 0 [] c = "1" -> 1 [] c = "2" -> 2 [] c = "3" -> 3
      [] c = "4" -> 4 [] c = "5" -> 5 [] c = "6" -> 6 [] c = "7" -> 7
      [] c = "8" -> 8 [] c = "9" -> 9

RECURSIVE DigitsVal(_)
DigitsVal(s) ==
    IF s = <<>> THEN 0
    ELSE 10 * DigitsVal(SubSeq(s, 1, Len(s) - 1)) + DigitVal(s[Len(s)])

int(s) ==
    IF s[1] = "-" THEN 0 - DigitsVal(Tail(s))
    ELSE IF s[1] = "+" THEN DigitsVal(Tail(s))
    ELSE DigitsVal(s)

(***************************************************************************)
(* Exact rational arithmetic for the average.                              *)
(***************************************************************************)
Abs(x) == IF x < 0 THEN 0 - x ELSE x

RECURSIVE Gcd(_, _)
Gcd(a, b) == IF b = 0 THEN a ELSE Gcd(b, a % b)

\* n/d in lowest terms; <<0, 0>> and <<n, 0>> stand for a division by zero.
Rat(n, d) ==
    LET g == IF n = 0 /\ d = 0 THEN 1 ELSE Gcd(Abs(n), Abs(d))
        s == IF d < 0 THEN 0 - 1 ELSE 1
    IN  << (s * n) \div g, (s * d) \div g >>

RatOfInt(i) == << i, 1 >>
RatAdd(p, q) == Rat(p[1] * q[2] + q[1] * p[2], p[2] * q[2])
RatSub(p, q) == Rat(p[1] * q[2] - q[1] * p[2], p[2] * q[2])
RatDivInt(p, k) == Rat(p[1], p[2] * k)

(***************************************************************************)
(* Python dict operations on functions with a finite domain.               *)
(***************************************************************************)
EmptyDict == [k \in {} |-> 0]
DictGet(d, k, default) == IF k \in DOMAIN d THEN d[k] ELSE default
DictPut(d, k, v) == [x \in (DOMAIN d) \cup {k} |-> IF x = k THEN v ELSE d[x]]
DictDel(d, k) == [x \in (DOMAIN d) \ {k} |-> d[x]]

\* The integer -1 that open_sessions.get(user_id, -1) returns for a missing
\* key; it differs from every stored timestamp, which is text.
NoSession == << "int", "-1" >>

(***************************************************************************)
(* The store: __init__                                                     *)
(***************************************************************************)
NewStore ==
    [ open_sessions        |-> EmptyDict,
      user_average         |-> EmptyDict,
      user_session_counter |-> EmptyDict,
      stdout               |-> <<>>,
      divisor              |-> 0 ]

\* A variant of the loop body of load_incomplete_sessions with the test on the
\* action inverted.
load_line_not_open(st, line) ==
    LET user_id   == line[1]
        timestamp == line[2]
        action    == line[3]
    IN  IF action # "open"
        THEN [st EXCEPT !.open_sessions = DictPut(@, user_id, timestamp)]
        ELSE st

\* A variant of the loop body of load_incomplete_sessions that keeps the
\* timestamp a user already has.
load_line_first_wins(st, line) ==
    LET user_id   == line[1]
        timestamp == line[2]
        action    == line[3]
    IN  IF action = "open" /\ user_id \notin DOMAIN st.open_sessions
        THEN [st EXCEPT !.open_sessions = DictPut(@, user_id, timestamp)]
        ELSE st

\* The loop body of load_incomplete_sessions for one line
load_line(st, line) ==
    LET user_id   == line[1]
        timestamp == line[2]
        action    == line[3]
    IN  IF action = "open"
        THEN [st EXCEPT !.open_sessions = DictPut(@, user_id, timestamp)]
        ELSE st

\* load_incomplete_sessions over the lines of the incomplete session file
RECURSIVE load_incomplete_sessions(_, _)
load_incomplete_sessions(st, lines) ==
    IF lines = <<>> THEN st
    ELSE load_incomplete_sessions(load_line(st, Head(lines)), Tail(lines))

\* A variant of get_incr_average with Python 2 integer division.
get_incr_average_floordiv(user_average_, user_session_counter_, user_id, duration) ==
    LET prev_average  == DictGet(user_average_, user_id, RatOfInt(0))
        session_count == DictGet(user_session_counter_, user_id, 1)
    IN  RatOfInt(prev_average[1] + ((duration - prev_average[1]) \div session_count))

\* A variant of get_incr_average that divides by the count before the current
\* session was counted, at least 1.
get_incr_average_prior(user_average_, user_session_counter_, user_id, duration) ==
    LET prev_average  == DictGet(user_average_, user_id, RatOfInt(0))
        counted       == DictGet(user_session_counter_, user_id, 1)
        session_count == IF counted - 1 < 1 THEN 1 ELSE counted - 1
    IN  RatAdd(prev_average,
               RatDivInt(RatSub(RatOfInt(duration), prev_average), session_count))

\* A variant of read_session_count that yields the count before the current
\* session was counted.
read_session_count_prior(user_session_counter_, user_id) ==
    DictGet(user_session_counter_, user_id, 1) - 1

\* A variant of read_session_count with one counter for all users.
RECURSIVE SumOver(_, _)
SumOver(d, keys) ==
    IF keys = {} THEN 0
    ELSE LET k == CHOOSE x \in keys : TRUE
         IN  d[k] + SumOver(d, keys \ {k})

read_session_count_shared(user_session_counter_, user_id) ==
    IF user_id \in DOMAIN user_session_counter_
    THEN SumOver(user_session_counter_, DOMAIN user_session_counter_)
    ELSE 1

\* session_count = self.user_session_counter.get(user_id, 1), the divisor of
\* get_incr_average
read_session_count(user_session_counter_, user_id) ==
    DictGet(user_session_counter_, user_id, 1)

\* get_incr_average, reading the dictionaries as they are at the call
get_incr_average(user_average_, user_session_counter_, user_id, duration) ==
    LET prev_average  == DictGet(user_average_, user_id, RatOfInt(0))
        session_count == read_session_count(user_session_counter_, user_id)
    IN  RatAdd(prev_average,
               RatDivInt(RatSub(RatOfInt(duration), prev_average), session_count))

\* A variant of end_session that subtracts the timestamps the other way round.
end_session_swapped(st, user_id, start_timestamp, end_timestamp) ==
    LET duration == int(start_timestamp) - int(end_timestamp)
        counter1 == DictPut(st.user_session_counter, user_id,
                            DictGet(st.user_session_counter, user_id, 0) + 1)
        average1 == DictPut(st.user_average, user_id,
                            get_incr_average(st.user_average, counter1, user_id, duration))
    IN  [ st EXCEPT !.user_session_counter = counter1,
                    !.user_average = average1,
                    !.open_sessions = DictDel(st.open_sessions, user_id) ]

\* A variant of end_session that leaves the entry in open_sessions.
end_session_keep_open(st, user_id, start_timestamp, end_timestamp) ==
    LET duration == int(end_timestamp) - int(start_timestamp)
        counter1 == DictPut(st.user_session_counter, user_id,
                            DictGet(st.user_session_counter, user_id, 0) + 1)
        average1 == DictPut(st.user_average, user_id,
                            get_incr_average(st.user_average, counter1, user_id, duration))
    IN  [ st EXCEPT !.user_session_counter = counter1,
                    !.user_average = average1 ]

\* A variant of end_session that counts a session only when its duration is
\* positive.
end_session_skip_nonpositive(st, user_id, start_timestamp, end_timestamp) ==
    LET duration == int(end_timestamp) - int(start_timestamp)
        counter1 == DictPut(st.user_session_counter, user_id,
                            DictGet(st.user_session_counter, user_id, 0)
                                + (IF duration > 0 THEN 1 ELSE 0))
        average1 == DictPut(st.user_average, user_id,
                            get_incr_average(st.user_average, counter1, user_id, duration))
    IN  [ st EXCEPT !.user_session_counter = counter1,
                    !.user_average = average1,
                    !.open_sessions = DictDel(st.open_sessions, user_id),
                    !.divisor = read_session_count(counter1, user_id) ]

\* end_session; the field divisor keeps the session_count that the call of
\* get_incr_average has read.
end_session(st, user_id, start_timestamp, end_timestamp) ==
    LET duration == int(end_timestamp) - int(start_timestamp)
        counter1 == DictPut(st.user_session_counter, user_id,
                            DictGet(st.user_session_counter, user_id, 0) + 1)
        average1 == DictPut(st.user_average, user_id,
                            get_incr_average(st.user_average, counter1, user_id, duration))
    IN  [ st EXCEPT !.user_session_counter = counter1,
                    !.user_average = average1,
                    !.open_sessions = DictDel(st.open_sessions, user_id),
                    !.divisor = read_session_count(counter1, user_id) ]

\* A variant of the loop body that ends the open session on every duplicate
\* open, whatever consider_missing_close says.
process_line_always_reconcile(st, consider_missing_close_, line) ==
    LET user_id   == line[1]
        timestamp == line[2]
        action    == line[3]
        afterOpen ==
            IF action = "open"
            THEN LET s0 == IF user_id \in DOMAIN st.open_sessions
                           THEN end_session(st, user_id,
                                            DictGet(st.open_sessions, user_id, NoSession),
                                            timestamp)
                           ELSE st
                 IN  [s0 EXCEPT !.open_sessions = DictPut(@, user_id, timestamp)]
            ELSE st
    IN  IF action = "close"
        THEN LET start_timestamp == DictGet(afterOpen.open_sessions, user_id, NoSession)
             IN  IF start_timestamp = NoSession
                 THEN [afterOpen EXCEPT !.stdout = Append(@, line)]
                 ELSE end_session(afterOpen, user_id, start_timestamp, timestamp)
        ELSE afterOpen

\* A variant of the loop body that records the timestamp of an open only when
\* the user has no open session.
process_line_no_rerecord(st, consider_missing_close_, line) ==
    LET user_id   == line[1]
        timestamp == line[2]
        action    == line[3]
        afterOpen ==
            IF action = "open"
            THEN IF user_id \in DOMAIN st.open_sessions
                 THEN IF consider_missing_close_
                      THEN end_session(st, user_id,
                                       DictGet(st.open_sessions, user_id, NoSession),
                                       timestamp)
                      ELSE st
                 ELSE [st EXCEPT !.open_sessions = DictPut(@, user_id, timestamp)]
            ELSE st
    IN  IF action = "close"
        THEN LET start_timestamp == DictGet(afterOpen.open_sessions, user_id, NoSession)
             IN  IF start_timestamp = NoSession
                 THEN [afterOpen EXCEPT !.stdout = Append(@, line)]
                 ELSE end_session(afterOpen, user_id, start_timestamp, timestamp)
        ELSE afterOpen

\* A variant of the loop body that never ends the open session on a duplicate
\* open.
process_line_never_reconcile(st, consider_missing_close_, line) ==
    LET user_id   == line[1]
        timestamp == line[2]
        action    == line[3]
        afterOpen ==
            IF action = "open"
            THEN [st EXCEPT !.open_sessions = DictPut(@, user_id, timestamp)]
            ELSE st
    IN  IF action = "close"
        THEN LET start_timestamp == DictGet(afterOpen.open_sessions, user_id, NoSession)
             IN  IF start_timestamp = NoSession
                 THEN [afterOpen EXCEPT !.stdout = Append(@, line)]
                 ELSE end_session(afterOpen, user_id, start_timestamp, timestamp)
        ELSE afterOpen

\* A variant of the loop body that looks the user up in the defaultdict
\* user_session_counter when a close finds no open session.
process_line_touch_counter(st, consider_missing_close_, line) ==
    LET user_id   == line[1]
        timestamp == line[2]
        action    == line[3]
        afterOpen ==
            IF action = "open"
            THEN LET s0 == IF user_id \in DOMAIN st.open_sessions /\ consider_missing_close_
                           THEN end_session(st, user_id,
                                            DictGet(st.open_sessions, user_id, NoSession),
                                            timestamp)
                           ELSE st
                 IN  [s0 EXCEPT !.open_sessions = DictPut(@, user_id, timestamp)]
            ELSE st
    IN  IF action = "close"
        THEN LET start_timestamp == DictGet(afterOpen.open_sessions, user_id, NoSession)
             IN  IF start_timestamp = NoSession
                 THEN [afterOpen EXCEPT
                         !.stdout = Append(@, line),
                         !.user_session_counter =
                             DictPut(@, user_id, DictGet(@, user_id, 0))]
                 ELSE end_session(afterOpen, user_id, start_timestamp, timestamp)
        ELSE afterOpen

\* A variant of process_line that takes every action other than open for a
\* close.
process_line_else_close(st, consider_missing_close_, line) ==
    LET user_id   == line[1]
        timestamp == line[2]
        action    == line[3]
        afterOpen ==
            IF action = "open"
            THEN LET s0 == IF user_id \in DOMAIN st.open_sessions /\ consider_missing_close_
                           THEN end_session(st, user_id,
                                            DictGet(st.open_sessions, user_id, NoSession),
                                            timestamp)
                           ELSE st
                 IN  [s0 EXCEPT !.open_sessions = DictPut(@, user_id, timestamp)]
            ELSE st
    IN  IF action # "open"
        THEN LET start_timestamp == DictGet(afterOpen.open_sessions, user_id, NoSession)
             IN  IF start_timestamp = NoSession
                 THEN [afterOpen EXCEPT !.stdout = Append(@, line)]
                 ELSE end_session(afterOpen, user_id, start_timestamp, timestamp)
        ELSE afterOpen

\* The body of the loop of process_log_file for one line
process_line(st, consider_missing_close_, line) ==
    LET user_id   == line[1]
        timestamp == line[2]
        action    == line[3]
        afterOpen ==
            IF action = "open"
            THEN LET s0 == IF user_id \in DOMAIN st.open_sessions /\ consider_missing_close_
                           THEN end_session(st, user_id,
                                            DictGet(st.open_sessions, user_id, NoSession),
                                            timestamp)
                           ELSE st
                 IN  [s0 EXCEPT !.open_sessions = DictPut(@, user_id, timestamp)]
            ELSE st
    IN  IF action = "close"
        THEN LET start_timestamp == DictGet(afterOpen.open_sessions, user_id, NoSession)
             IN  IF start_timestamp = NoSession
                 THEN [afterOpen EXCEPT !.stdout = Append(@, line)]
                 ELSE end_session(afterOpen, user_id, start_timestamp, timestamp)
        ELSE afterOpen

(***************************************************************************)
(* The incomplete session file as text: a sequence of tokens, a token      *)
(* being a user id, a character of a timestamp, ",", "\n" or an action.    *)
(***************************************************************************)
Newline == "\n"

\* fp.write("%s,%s,%s" %(user_id, timestamp, "open"))
FormatRecord(user_id, timestamp) ==
    <<user_id, ",">> \o timestamp \o <<",", "open">>

\* write_incomplete_sessions, open_sessions.items() coming in the given order
RECURSIVE write_incomplete_sessions(_, _)
write_incomplete_sessions(sessions, order) ==
    IF order = <<>> THEN <<>>
    ELSE FormatRecord(Head(order), sessions[Head(order)])
            \o write_incomplete_sessions(sessions, Tail(order))

\* The orders in which a dictionary may list its keys.
RECURSIVE Orderings(_)
Orderings(S) ==
    IF S = {} THEN { <<>> }
    ELSE UNION { { <<x>> \o rest : rest \in Orderings(S \ {x}) } : x \in S }

\* for log_line in open(file): the lines of a text, each with its newline
RECURSIVE FileLines(_, _)
FileLines(text, current) ==
    IF text = <<>> THEN (IF current = <<>> THEN <<>> ELSE <<current>>)
    ELSE IF Head(text) = Newline
         THEN <<Append(current, Newline)>> \o FileLines(Tail(text), <<>>)
         ELSE FileLines(Tail(text), Append(current, Head(text)))

\* log_line.strip()
IsSpace(c) == c \in {Newline, " "}

RECURSIVE strip(_)
strip(s) ==
    IF s = <<>> THEN s
    ELSE IF IsSpace(Head(s)) THEN strip(Tail(s))
    ELSE IF IsSpace(s[Len(s)]) THEN strip(SubSeq(s, 1, Len(s) - 1))
    ELSE s

\* text.split(","): the fields between the commas, at least one
RECURSIVE split(_, _)
split(s, current) ==
    IF s = <<>> THEN <<current>>
    ELSE IF Head(s) = ","
         THEN <<current>> \o split(Tail(s), <<>>)
         ELSE split(Tail(s), Append(current, Head(s)))

\* A user id or an action read from a field; each is one token in every
\* three-field line that write_incomplete_sessions can produce.
Word(field) == IF field = <<>> THEN "" ELSE field[1]

\* load_incomplete_sessions reading the text of the file: the unpacking of
\* line 56 raises ValueError unless the line has exactly three fields.
RECURSIVE load_text_lines(_, _)
load_text_lines(st, lines) ==
    IF lines = <<>> THEN [status |-> "ok", store |-> st]
    ELSE LET fields == split(strip(Head(lines)), <<>>)
         IN  IF Len(fields) # 3
             THEN [status |-> "ValueError", store |-> st]
             ELSE load_text_lines(
                      load_line(st, <<Word(fields[1]), fields[2], Word(fields[3])>>),
                      Tail(lines))

load_incomplete_sessions_text(st, text) == load_text_lines(st, FileLines(text, <<>>))

(***************************************************************************)
(* State                                                                   *)
(***************************************************************************)
VARIABLES
    pc,                            \* position in process_log_file
    consider_missing_close,        \* arguments of process_log_file
    read_incomplete_session_file,
    open_sessions,                 \* the store's dictionaries
    user_average,
    user_session_counter,
    stdout,                        \* lines reported as "No open session found for"
    divisor,                       \* session_count last read by get_incr_average
    log_line,                      \* the line of the current loop iteration
    nread,                         \* number of lines read from the log file
    durations,                     \* history: durations completed per user
    matched_closes,                \* history: closes that found an open session
    duplicate_opens,               \* history: opens that found an open session
    last_event,                    \* history: most recent open/close per user
    second,                        \* the store of a second run started at a split
    written_file,                  \* text left in the incomplete session file
    reloaded,                      \* a later run that loads the written file
    loaded_file,                   \* a file loaded into the store after its run
    solo,                          \* per user, a store fed only that user's lines
    other,                         \* a store fed the same lines, opposite policy
    opens_seen                     \* history: open events read per user

vars == << pc, consider_missing_close, read_incomplete_session_file,
           open_sessions, user_average, user_session_counter, stdout, divisor,
           log_line, nread, durations, matched_closes, duplicate_opens,
           last_event, second, written_file, reloaded, loaded_file,
           solo, other, opens_seen >>

\* The stores that run beside the store, and the count of opens.
shadow == << solo, other, opens_seen >>

Store ==
    [ open_sessions        |-> open_sessions,
      user_average         |-> user_average,
      user_session_counter |-> user_session_counter,
      stdout               |-> stdout,
      divisor              |-> divisor ]

SetStore(st) ==
    /\ open_sessions' = st.open_sessions
    /\ user_average' = st.user_average
    /\ user_session_counter' = st.user_session_counter
    /\ stdout' = st.stdout
    /\ divisor' = st.divisor

\* Contents of an incomplete session file: one open record per line.
RECURSIVE SeqsUpTo(_, _)
SeqsUpTo(S, n) ==
    IF n = 0 THEN { <<>> }
    ELSE LET shorter == SeqsUpTo(S, n - 1)
         IN  shorter \cup { Append(s, x) : s \in shorter, x \in S }

IncompleteFiles == SeqsUpTo(Users \X Timestamps \X {"open"}, MaxResidual)

\* The incomplete session file that hands a store's open sessions to the next
\* run: one user_id,timestamp,open line per entry, in any order.
RECURSIVE ResidualFiles(_)
ResidualFiles(sessions) ==
    IF DOMAIN sessions = {} THEN { <<>> }
    ELSE UNION { { << <<u, sessions[u], "open">> >> \o rest :
                     rest \in ResidualFiles(DictDel(sessions, u)) } :
                 u \in DOMAIN sessions }

\* The lines of user u in a file.
RECURSIVE LinesOf(_, _)
LinesOf(lines, u) ==
    IF lines = <<>> THEN <<>>
    ELSE IF Head(lines)[1] = u
         THEN <<Head(lines)>> \o LinesOf(Tail(lines), u)
         ELSE LinesOf(Tail(lines), u)

NoSecond ==
    [ active       |-> FALSE,      \* the second run has started
      store        |-> NewStore,   \* its store
      residual     |-> EmptyDict,  \* the open sessions it loaded
      prefix_users |-> {},         \* users with a session completed before it
      at           |-> 0,          \* number of lines read before it
      dup          |-> FALSE ]     \* its first line is a duplicate open

\* Contents of the incomplete session file that a caller has the store load
\* after its run; a user may occur more than once.
ReloadFiles == SeqsUpTo(Users \X Timestamps \X {"open"}, MaxReload)

NotLoaded == [ lines |-> <<>>, before |-> EmptyDict ]

\* The incomplete session file before this run has written it.
Unwritten == << "unwritten" >>

NotReloaded == [ status |-> "none", store |-> NewStore ]

Init ==
    /\ pc = "start"
    /\ consider_missing_close \in BOOLEAN
    /\ read_incomplete_session_file \in BOOLEAN
    /\ open_sessions = NewStore.open_sessions
    /\ user_average = NewStore.user_average
    /\ user_session_counter = NewStore.user_session_counter
    /\ stdout = NewStore.stdout
    /\ divisor = NewStore.divisor
    /\ log_line = NoLine
    /\ nread = 0
    /\ durations = [u \in Users |-> <<>>]
    /\ matched_closes = [u \in Users |-> 0]
    /\ duplicate_opens = [u \in Users |-> 0]
    /\ last_event = [u \in Users |-> <<"none">>]
    /\ second = NoSecond
    /\ written_file = Unwritten
    /\ reloaded = NotReloaded
    /\ loaded_file = NotLoaded
    /\ solo = [u \in Users |-> NewStore]
    /\ other = NewStore
    /\ opens_seen = [u \in Users |-> 0]

\* process_log_file up to the loop: the optional load_incomplete_sessions
Begin ==
    /\ pc = "start"
    /\ pc' = "loop"
    /\ IF read_incomplete_session_file
       THEN \E file \in IncompleteFiles :
              LET st == load_incomplete_sessions(Store, file)
              IN  /\ SetStore(st)
                  /\ last_event' = [u \in Users |->
                        IF u \in DOMAIN st.open_sessions
                        THEN <<"preloaded", st.open_sessions[u]>>
                        ELSE last_event[u]]
                  /\ solo' = [u \in Users |->
                        load_incomplete_sessions(solo[u], LinesOf(file, u))]
                  /\ other' = load_incomplete_sessions(other, file)
       ELSE /\ SetStore(Store)
            /\ UNCHANGED << last_event, solo, other >>
    /\ UNCHANGED << consider_missing_close, read_incomplete_session_file,
                    log_line, nread, durations, matched_closes,
                    duplicate_opens, second, written_file, reloaded,
                    loaded_file, opens_seen >>

\* A variant of next_pc in which a close that finds no open session ends the
\* run with an exception.
next_pc_stops(st, line) ==
    IF line[3] = "close" /\ line[1] \notin DOMAIN st.open_sessions
    THEN "failed"
    ELSE "loop"

\* Where process_log_file continues after the body of the loop has handled a
\* line in store st: at the next iteration, also after the print of line 125.
next_pc(st, line) == "loop"

\* One iteration of the loop over the log file, the line drawn from Lines
ProcessLineFrom(Lines) ==
    /\ pc = "loop"
    /\ nread < MaxEvents
    /\ \E line \in Lines :
         LET u == line[1]
             had == u \in DOMAIN open_sessions
             completes == /\ had
                          /\ \/ line[3] = "close"
                             \/ line[3] = "open" /\ consider_missing_close
         IN  /\ log_line' = line
             /\ pc' = next_pc(Store, line)
             /\ SetStore(process_line(Store, consider_missing_close, line))
             /\ durations' =
                  IF completes
                  THEN [durations EXCEPT ![u] = Append(@, int(line[2]) - int(open_sessions[u]))]
                  ELSE durations
             /\ matched_closes' =
                  IF had /\ line[3] = "close"
                  THEN [matched_closes EXCEPT ![u] = @ + 1] ELSE matched_closes
             /\ duplicate_opens' =
                  IF had /\ line[3] = "open"
                  THEN [duplicate_opens EXCEPT ![u] = @ + 1] ELSE duplicate_opens
             /\ last_event' =
                  [last_event EXCEPT ![u] =
                      IF line[3] = "open" THEN <<"open", line[2]>>
                      ELSE IF line[3] = "close" THEN <<"close">> ELSE @]
             /\ solo' = [solo EXCEPT
                           ![u] = process_line(@, consider_missing_close, line)]
             /\ other' = process_line(other, ~consider_missing_close, line)
             /\ opens_seen' =
                  IF line[3] = "open"
                  THEN [opens_seen EXCEPT ![u] = @ + 1] ELSE opens_seen
             /\ second' =
                  IF second.active
                  THEN [second EXCEPT
                          !.store = process_line(@, consider_missing_close, line),
                          !.dup = @ \/ (nread = second.at /\ line[3] = "open" /\ had)]
                  ELSE second
    /\ nread' = nread + 1
    /\ UNCHANGED << consider_missing_close, read_incomplete_session_file,
                    written_file, reloaded, loaded_file >>

\* One iteration of the loop over a log file of open and close events
ProcessLine == ProcessLineFrom(LogLines)

\* End of the log file: the loop is left and, when the caller passed
\* write_incomplete_session_file, the open sessions are written.  The argument
\* is read only here, so its value is drawn here.
Finish ==
    /\ pc = "loop"
    /\ pc' = "done"
    /\ \E write_incomplete_session_file \in BOOLEAN :
         IF write_incomplete_session_file
         THEN \E order \in Orderings(DOMAIN open_sessions) :
                written_file' = write_incomplete_sessions(open_sessions, order)
         ELSE written_file' = written_file
    /\ UNCHANGED << consider_missing_close, read_incomplete_session_file,
                    open_sessions, user_average, user_session_counter, stdout,
                    divisor, log_line, nread, durations, matched_closes,
                    duplicate_opens, last_event, second, reloaded,
                    loaded_file >>
    /\ UNCHANGED shadow

\* A second run starts between two lines of the log: a fresh store whose
\* process_log_file(read_incomplete_session_file=True) loads the open sessions
\* of the first store and then reads the remaining lines.
Split ==
    /\ pc = "loop"
    /\ ~second.active
    /\ \E file \in ResidualFiles(open_sessions) :
         second' = [ active       |-> TRUE,
                     store        |-> load_incomplete_sessions(NewStore, file),
                     residual     |-> open_sessions,
                     prefix_users |-> DOMAIN user_session_counter,
                     at           |-> nread,
                     dup          |-> FALSE ]
    /\ UNCHANGED << pc, consider_missing_close, read_incomplete_session_file,
                    open_sessions, user_average, user_session_counter, stdout,
                    divisor, log_line, nread, durations, matched_closes,
                    duplicate_opens, last_event, written_file, reloaded,
                    loaded_file >>
    /\ UNCHANGED shadow

Next == Begin \/ ProcessLine \/ Split \/ Finish

\* The next run: a fresh store calls load_incomplete_sessions on the file that
\* this run has written.
LoadBack ==
    /\ pc = "done"
    /\ written_file # Unwritten
    /\ pc' = "reloaded"
    /\ reloaded' = load_incomplete_sessions_text(NewStore, written_file)
    /\ UNCHANGED << consider_missing_close, read_incomplete_session_file,
                    open_sessions, user_average, user_session_counter, stdout,
                    divisor, log_line, nread, durations, matched_closes,
                    duplicate_opens, last_event, second, written_file,
                    loaded_file >>
    /\ UNCHANGED shadow

\* After its run the store is told to load_incomplete_sessions once more, from
\* one of the given files, which the run itself has not written.
LoadAgainFrom(Files) ==
    /\ pc = "done"
    /\ written_file = Unwritten
    /\ pc' = "loaded"
    /\ \E file \in Files :
         LET st == load_incomplete_sessions(Store, file)
         IN  /\ SetStore(st)
             /\ loaded_file' = [ lines |-> file, before |-> open_sessions ]
             /\ solo' = [u \in Users |->
                   load_incomplete_sessions(solo[u], LinesOf(file, u))]
             /\ other' = load_incomplete_sessions(other, file)
             /\ last_event' = [u \in Users |->
                   IF \E i \in 1..Len(file) : file[i][1] = u /\ file[i][3] = "open"
                   THEN <<"preloaded", st.open_sessions[u]>>
                   ELSE last_event[u]]
    /\ UNCHANGED << consider_missing_close, read_incomplete_session_file,
                    log_line, nread, durations, matched_closes,
                    duplicate_opens, second, written_file, reloaded,
                    opens_seen >>

LoadAgain == LoadAgainFrom(ReloadFiles)

NextLoad == Begin \/ ProcessLine \/ Finish \/ LoadAgain

\* Runs that preload nothing and may load a file afterwards.
InitLoad == Init /\ ~read_incomplete_session_file

SpecLoad == InitLoad /\ [][NextLoad]_vars

\* Actions that are neither open nor close.
OtherActions == {"ping"}

\* Three-field records with any action.
AnyLines == Users \X Timestamps \X (Actions \cup OtherActions)

\* Incomplete session files whose records carry any action.
AnyIncompleteFiles == SeqsUpTo(AnyLines, MaxResidual)

\* One iteration of the loop over a log file whose records carry any action
ProcessAnyLine == ProcessLineFrom(AnyLines)

LoadAnyAgain == LoadAgainFrom(AnyIncompleteFiles)

NextAny == Begin \/ ProcessAnyLine \/ Finish \/ LoadAnyAgain

SpecAny == InitLoad /\ [][NextAny]_vars

\* One run of process_log_file that preloads nothing.  The call proceeds to
\* its loop, and the log file is finite: the iteration over its lines ends.
NextRun == Begin \/ ProcessLine \/ Finish

SpecFair == InitLoad /\ [][NextRun]_vars /\ WF_vars(Begin) /\ WF_vars(Finish)

NextRoundTrip == Begin \/ ProcessLine \/ Finish \/ LoadBack

SpecRoundTrip == Init /\ [][NextRoundTrip]_vars

Spec == Init /\ [][Next]_vars

(***************************************************************************)
(* Properties                                                              *)
(***************************************************************************)
RECURSIVE SumSeq(_)
SumSeq(s) == IF s = <<>> THEN 0 ELSE Head(s) + SumSeq(Tail(s))

Last(s) == s[Len(s)]

\* The running average and the session count as a caller reads them.
running_average(u) == DictGet(user_average, u, RatOfInt(0))
session_count_of(u) == DictGet(user_session_counter, u, 0)

ScenarioB ==
    /\ consider_missing_close
    /\ ~read_incomplete_session_file
    /\ nread = 3
    /\ durations["u1"] = <<100, 60>>
    /\ last_event["u2"] = <<"none">>
    /\ log_line = <<"u1", <<"2","6","0">>, "close">>

\* The k-th session of u completes in this step with duration D, and the new
\* average A1 satisfies (A1 - A0) * by = D - A0.
UpdatesWithDivisor(u, by) ==
    LET A0 == DictGet(user_average, u, RatOfInt(0))
        A1 == user_average'[u]
        D  == Last(durations'[u])
    IN  (A1[1] * A0[2] - A0[1] * A1[2]) * by = (D * A0[2] - A0[1]) * A1[2]

C2_OriginalStep ==
    /\ \A u \in Users :
          Len(durations'[u]) = Len(durations[u]) + 1 =>
              LET k == Len(durations'[u])
              IN  UpdatesWithDivisor(u, IF k - 1 < 1 THEN 1 ELSE k - 1)
    /\ ScenarioB' => user_average'["u1"] = RatOfInt(60)

\* C2 as stated: the divisor of the k-th update is max(1, k-1), and scenario B
\* leaves an average of 60.
C2_Original == [][C2_OriginalStep]_vars

C2_AmendedStep ==
    /\ \A u \in Users :
          Len(durations'[u]) = Len(durations[u]) + 1 =>
              UpdatesWithDivisor(u, Len(durations'[u]))
    /\ ScenarioB' => user_average'["u1"] = RatOfInt(80)

\* C2 as amended: when the k-th session of a user completes with duration D
\* and previous average A0, the new average is A0 + (D - A0) / k, the divisor
\* being the session count after this session is counted; scenario B leaves
\* an average of 80.
C2_DivisorIsNewCount == [][C2_AmendedStep]_vars

\* Scenario B has happened.
C2_Witness == ScenarioB /\ user_session_counter["u1"] = 2

\* C3: after the first completed session of a user, of duration D, the
\* average of that user is exactly D, also for zero and negative D and
\* whether a close or a reconciled open completed the session.
C3_FirstSessionExact ==
    \A u \in Users :
        Len(durations[u]) = 1 =>
            /\ u \in DOMAIN user_average
            /\ user_average[u] = RatOfInt(durations[u][1])

\* A reconciled open has completed a first session of negative duration.
C3_Witness ==
    \E u \in Users :
        /\ Len(durations[u]) = 1
        /\ durations[u][1] < 0
        /\ last_event[u][1] = "open"
        /\ log_line = <<u, last_event[u][2], "open">>
        /\ duplicate_opens[u] = 1

\* C4: the session count of every user is the number of closes that found an
\* open session plus, only under consider_missing_close, the number of opens
\* that found an open session; nothing else changes it.
C4_CountIsCompleted ==
    \A u \in Users :
        session_count_of(u) =
            matched_closes[u] + (IF consider_missing_close THEN duplicate_opens[u] ELSE 0)

\* Under the ignore policy a preloaded user has had a duplicate open, a
\* matched close and an unmatched close.
C4_Witness ==
    \E u \in Users :
        /\ ~consider_missing_close
        /\ read_incomplete_session_file
        /\ duplicate_opens[u] >= 1
        /\ matched_closes[u] >= 1
        /\ stdout # <<>>
        /\ session_count_of(u) = 1

\* C5: a user has an entry in open_sessions exactly when the most recent
\* open or close of that user (or, without any event, a preloaded record) is
\* an open, and the entry is the timestamp of that open.
C5_OpenIffLastIsOpen ==
    \A u \in Users :
        IF last_event[u][1] \in {"open", "preloaded"}
        THEN u \in DOMAIN open_sessions /\ open_sessions[u] = last_event[u][2]
        ELSE u \notin DOMAIN open_sessions

\* One user's entry was overwritten by a duplicate open, another user's
\* preloaded entry is still there, untouched.
C5_Witness ==
    \E u, v \in Users :
        /\ u # v
        /\ duplicate_opens[u] >= 1
        /\ last_event[u][1] = "open"
        /\ u \in DOMAIN open_sessions
        /\ last_event[v][1] = "preloaded"
        /\ v \in DOMAIN open_sessions

\* The step reads one line of the log file.
ReadsLine == pc = "loop" /\ nread' = nread + 1

\* The average of u after the step is the mean of the sessions counted before
\* it and one more session of duration D.
AverageGains(u, D) ==
    LET A0 == running_average(u)
        k  == session_count_of(u)
        A1 == user_average'[u]
    IN  A1[1] * (k + 1) * A0[2] = (A0[1] * k + D * A0[2]) * A1[2]

C6_Step ==
    (/\ ReadsLine
     /\ log_line'[3] = "close"
     /\ log_line'[1] \in DOMAIN open_sessions)
    => LET u == log_line'[1]
           D == int(log_line'[2]) - int(open_sessions[u])
       IN  /\ u \in DOMAIN user_average'
           /\ AverageGains(u, D)
           /\ DictGet(user_session_counter', u, 0) = session_count_of(u) + 1
           /\ open_sessions' = DictDel(open_sessions, u)

\* C6: a close of a user with an open session takes the duration as close
\* timestamp minus recorded open timestamp, in arrival order and possibly
\* negative, updates the average of the user with it, adds exactly one to the
\* session count of the user and removes the entry of the user.
C6_MatchedClose == [][C6_Step]_vars

\* The last line was a close that found an open session started later than
\* the close.
C6_Witness ==
    \E u \in Users :
        /\ log_line # NoLine
        /\ log_line[1] = u
        /\ log_line[3] = "close"
        /\ stdout = <<>>
        /\ matched_closes[u] = 1
        /\ Len(durations[u]) = 1
        /\ durations[u][1] < 0
        /\ u \notin DOMAIN open_sessions

C7_Step ==
    (/\ ReadsLine
     /\ consider_missing_close
     /\ log_line'[3] = "open"
     /\ log_line'[1] \in DOMAIN open_sessions)
    => LET u == log_line'[1]
           D == int(log_line'[2]) - int(open_sessions[u])
       IN  /\ u \in DOMAIN user_average'
           /\ AverageGains(u, D)
           /\ DictGet(user_session_counter', u, 0) = session_count_of(u) + 1
           /\ open_sessions' = DictPut(open_sessions, u, log_line'[2])

\* C7: under consider_missing_close an open at t of a user whose session
\* started at s completes that session with duration t - s (one more session,
\* average updated with t - s) and leaves open_sessions[u] = t.
C7_ReconciledOpen == [][C7_Step]_vars

\* Without preloading, the second line was a duplicate open that the store
\* reconciled.
C7_Witness ==
    \E u \in Users :
        /\ consider_missing_close
        /\ ~read_incomplete_session_file
        /\ nread = 2
        /\ duplicate_opens[u] = 1
        /\ log_line[1] = u
        /\ log_line[3] = "open"
        /\ session_count_of(u) = 1
        /\ u \in DOMAIN open_sessions
        /\ open_sessions[u] = log_line[2]

\* The events (u1,s,open),(u1,200,open),(u1,260,close) have been read by a
\* store that loaded nothing and ignores duplicate opens.
ScenarioC ==
    /\ ~consider_missing_close
    /\ ~read_incomplete_session_file
    /\ nread = 3
    /\ duplicate_opens["u1"] = 1
    /\ matched_closes["u1"] = 1
    /\ last_event["u2"] = <<"none">>
    /\ log_line = <<"u1", <<"2","6","0">>, "close">>
    /\ durations["u1"] = <<60>>

C8_Step ==
    /\ (/\ ReadsLine
        /\ ~consider_missing_close
        /\ log_line'[3] = "open"
        /\ log_line'[1] \in DOMAIN open_sessions)
       => /\ user_average' = user_average
          /\ user_session_counter' = user_session_counter
          /\ open_sessions' = DictPut(open_sessions, log_line'[1], log_line'[2])
    /\ ScenarioC' => /\ user_session_counter' = [u \in {"u1"} |-> 1]
                     /\ user_average' = [u \in {"u1"} |-> RatOfInt(60)]

\* C8: without consider_missing_close an open at t of a user with an open
\* session changes no average and no session count and only overwrites
\* open_sessions[u] with t; scenario C yields one session of duration 60.
C8_IgnoredOpen == [][C8_Step]_vars

\* Scenario C has happened.
C8_Witness == ScenarioC /\ "u1" \notin DOMAIN open_sessions

\* Every event of u so far was a close that found no open session.
OnlyUnmatchedCloses(u) == last_event[u] = <<"close">> /\ matched_closes[u] = 0

C9_Step ==
    /\ (/\ ReadsLine
        /\ log_line'[3] = "close"
        /\ log_line'[1] \notin DOMAIN open_sessions)
       => /\ stdout' = Append(stdout, log_line')
          /\ open_sessions' = open_sessions
          /\ user_average' = user_average
          /\ user_session_counter' = user_session_counter
    /\ \A u \in Users :
          OnlyUnmatchedCloses(u)' =>
              /\ u \notin DOMAIN open_sessions'
              /\ u \notin DOMAIN user_average'
              /\ u \notin DOMAIN user_session_counter'
              /\ DictGet(user_average', u, RatOfInt(0)) = RatOfInt(0)
              /\ DictGet(user_session_counter', u, 0) = 0

\* C9: a close of a user without an open session reports the line and leaves
\* open_sessions, user_average and user_session_counter as they were, creating
\* no key; a user with only such closes has running average 0 and count 0.
C9_UnmatchedClose == [][C9_Step]_vars

\* The last line was an unmatched close of a user who never opened, while
\* another user has a completed session.
C9_Witness ==
    \E u, v \in Users :
        /\ u # v
        /\ stdout # <<>>
        /\ log_line = Last(stdout)
        /\ log_line[1] = u
        /\ OnlyUnmatchedCloses(u)
        /\ v \in DOMAIN user_average

\* The second run is over and its split point was not followed by a duplicate
\* open.
SplitRunDone == pc = "done" /\ second.active /\ ~second.dup

C11_RoundTrip ==
    pc = "reloaded" =>
        /\ reloaded.status = "ok"
        /\ reloaded.store.open_sessions = open_sessions

\* The same for a table of at most one user.
C11_RoundTripOfOne ==
    (pc = "reloaded" /\ Cardinality(DOMAIN open_sessions) <= 1) =>
        /\ reloaded.status = "ok"
        /\ reloaded.store.open_sessions = open_sessions

\* The positions of the records of user u in a file.
RecordsOf(lines, u) == { i \in 1..Len(lines) : lines[i][1] = u }

SetMax(S) == CHOOSE x \in S : \A y \in S : y <= x

C12_Step ==
    (pc = "done" /\ pc' = "loaded")
    => /\ user_average' = user_average
       /\ user_session_counter' = user_session_counter
       /\ durations' = durations
       /\ stdout' = stdout
       /\ \A u \in Users :
            LET at == RecordsOf(loaded_file'.lines, u)
            IN  IF at = {}
                THEN /\ (u \in DOMAIN open_sessions') = (u \in DOMAIN open_sessions)
                     /\ u \in DOMAIN open_sessions => open_sessions'[u] = open_sessions[u]
                ELSE /\ u \in DOMAIN open_sessions'
                     /\ open_sessions'[u] = loaded_file'.lines[SetMax(at)][2]

\* C12: loading residual records changes open_sessions only (no average, no
\* count, no duration); a user who occurs more than once, or already has an
\* entry, ends with the timestamp loaded last.
C12_PreloadFrame == [][C12_Step]_vars

\* A store with statistics and an entry for u has loaded two records of u
\* with timestamps that differ from each other and from the entry.
C12_Witness ==
    \E u \in Users :
        /\ pc = "loaded"
        /\ user_average # EmptyDict
        /\ Len(loaded_file.lines) = 2
        /\ loaded_file.lines[1][1] = u
        /\ loaded_file.lines[2][1] = u
        /\ loaded_file.lines[1][2] # loaded_file.lines[2][2]
        /\ u \in DOMAIN loaded_file.before
        /\ loaded_file.before[u] # loaded_file.lines[1][2]
        /\ loaded_file.before[u] # loaded_file.lines[2][2]
        /\ open_sessions[u] = loaded_file.lines[2][2]

\* The line read in this step is a close of a user without an open session.
UnmatchedCloseStep ==
    /\ ReadsLine
    /\ log_line'[3] = "close"
    /\ log_line'[1] \notin DOMAIN open_sessions

C13_Step ==
    /\ UnmatchedCloseStep => pc' = "loop"
    /\ (ReadsLine /\ stdout # <<>>) =>
          LET u == log_line'[1]
          IN  /\ pc' = "loop"
              /\ log_line'[3] = "open" =>
                    u \in DOMAIN open_sessions' /\ open_sessions'[u] = log_line'[2]
              /\ (log_line'[3] = "close" /\ u \in DOMAIN open_sessions) =>
                    /\ u \notin DOMAIN open_sessions'
                    /\ user_session_counter'[u] = session_count_of(u) + 1

\* The file written at the end names every user with an open session.
WritesResidual ==
    (pc = "done" /\ written_file # Unwritten) =>
        \A u \in DOMAIN open_sessions :
            \E i \in 1..Len(written_file) : written_file[i] = u

\* C13: an unmatched close never stops the run: the loop continues with the
\* next line under the normal rules, and the run reaches the end of the
\* stream, where it writes the residual sessions if asked to.
C13_NeverStops ==
    /\ [][C13_Step]_vars
    /\ (stdout # <<>>) ~> (pc = "done")
    /\ []WritesResidual

\* After an unmatched close a later open and close of the same user were
\* matched, and the run has ended and written the file.
C13_Witness ==
    \E u \in Users :
        /\ pc = "done"
        /\ written_file # Unwritten
        /\ Len(stdout) = 1
        /\ stdout[1][1] = u
        /\ nread = 3
        /\ matched_closes[u] = 1
        /\ session_count_of(u) = 1

\* C14: whenever get_incr_average has been called, the divisor it read was at
\* least 1, so no average is the result of a division by zero.
C14_DivisorAtLeastOne ==
    /\ (\E u \in Users : durations[u] # <<>>) => divisor >= 1
    /\ \A u \in DOMAIN user_average : user_average[u][2] >= 1

\* A user's first session has just completed, by a close, and the divisor
\* read was 1.
C14_Witness ==
    \E u \in Users :
        /\ Len(durations[u]) = 1
        /\ log_line # NoLine
        /\ log_line[1] = u
        /\ log_line[3] = "close"
        /\ last_event[u] = <<"close">>
        /\ matched_closes[u] = 1
        /\ stdout = <<>>
        /\ divisor = 1

\* The entry of user v in a dictionary, as a dictionary of at most one key.
OnlyKey(d, v) == [k \in (DOMAIN d) \cap {v} |-> d[k]]

C15_Step ==
    /\ ReadsLine =>
          \A v \in Users \ {log_line'[1]} :
              /\ OnlyKey(open_sessions', v) = OnlyKey(open_sessions, v)
              /\ OnlyKey(user_average', v) = OnlyKey(user_average, v)
              /\ OnlyKey(user_session_counter', v) = OnlyKey(user_session_counter, v)
    /\ \A u \in Users :
          /\ solo'[u].open_sessions = OnlyKey(open_sessions', u)
          /\ solo'[u].user_average = OnlyKey(user_average', u)
          /\ solo'[u].user_session_counter = OnlyKey(user_session_counter', u)

\* C15: a line of user u leaves the open session, average and count of every
\* other user as they were, and the state of each user always equals that of
\* a separate store that has processed only the lines of that user.
C15_PerUserIndependence == [][C15_Step]_vars

\* Both users have completed a session, the one of v after lines of u.
C15_Witness ==
    \E u, v \in Users :
        /\ u # v
        /\ u \in DOMAIN user_average
        /\ v \in DOMAIN user_average
        /\ log_line # NoLine
        /\ log_line[1] = v
        /\ solo[v].user_average = OnlyKey(user_average, v)
        /\ solo[u].user_session_counter = OnlyKey(user_session_counter, u)
        /\ opens_seen[u] >= 1

\* The store that reconciles duplicate opens, and the one that ignores them.
Reconciling == IF consider_missing_close THEN Store ELSE other
Ignoring == IF consider_missing_close THEN other ELSE Store

\* C16: fed the same lines, the store that reconciles and the store that
\* ignores duplicate opens have the same open_sessions and have reported the
\* same unmatched closes after every line, and no user has fewer sessions in
\* the reconciling store.
C16_PolicyIndependentOpens ==
    /\ Reconciling.open_sessions = Ignoring.open_sessions
    /\ Reconciling.stdout = Ignoring.stdout
    /\ \A u \in Users :
          DictGet(Reconciling.user_session_counter, u, 0)
              >= DictGet(Ignoring.user_session_counter, u, 0)

\* After a duplicate open, a close and an unmatched close the reconciling
\* store has more sessions of a user than the ignoring store.
C16_Witness ==
    \E u \in Users :
        /\ duplicate_opens[u] >= 1
        /\ matched_closes[u] >= 1
        /\ stdout # <<>>
        /\ DictGet(Reconciling.user_session_counter, u, 0) = 2
        /\ DictGet(Ignoring.user_session_counter, u, 0) = 1

\* C17: under consider_missing_close and without preloading, the opens read
\* for a user are the completed sessions of that user plus the one still
\* open, if any.
C17_NoOpenLost ==
    (consider_missing_close /\ ~read_incomplete_session_file) =>
        \A u \in Users :
            opens_seen[u] =
                session_count_of(u) + (IF u \in DOMAIN open_sessions THEN 1 ELSE 0)

\* Three opens of a user were read: two are counted, one is pending.
C17_Witness ==
    \E u \in Users :
        /\ consider_missing_close
        /\ ~read_incomplete_session_file
        /\ opens_seen[u] = 3
        /\ session_count_of(u) = 2
        /\ u \in DOMAIN open_sessions

\* The users with at least one counted session.
Counted(counter) == { u \in DOMAIN counter : counter[u] >= 1 }

C18_Step ==
    /\ DOMAIN user_average' = Counted(user_session_counter')
    /\ \A u \in Users :
          durations'[u] = <<>> =>
              /\ u \notin DOMAIN user_average'
              /\ DictGet(user_average', u, RatOfInt(0)) = RatOfInt(0)
    /\ \A u \in DOMAIN user_average :
          /\ u \in DOMAIN user_average'
          /\ DictGet(user_session_counter', u, 0) >= session_count_of(u)

\* C18: the users with a stored average are exactly the users with a session
\* count of at least 1; a user without a completed session has no stored
\* average and reads 0; an average is never removed and a count never
\* decreases.
C18_AverageIffCounted == [][C18_Step]_vars

\* One user has two counted sessions, the second of duration zero or less,
\* while another user has a pending open and no average.
C18_Witness ==
    \E u, v \in Users :
        /\ u # v
        /\ u \in DOMAIN user_average
        /\ session_count_of(u) = 2
        /\ durations[u][2] <= 0
        /\ v \in DOMAIN open_sessions
        /\ v \notin DOMAIN user_average
        /\ session_count_of(v) = 0

\* The step reads a record whose action is neither open nor close.
ReadsOtherLine == ReadsLine /\ log_line'[3] \notin Actions

\* The open records of user u in a file.
OpenRecordsOf(lines, u) ==
    { i \in 1..Len(lines) : lines[i][1] = u /\ lines[i][3] = "open" }

C19_Step ==
    /\ ReadsOtherLine =>
          /\ open_sessions' = open_sessions
          /\ user_average' = user_average
          /\ user_session_counter' = user_session_counter
          /\ stdout' = stdout
          /\ pc' = "loop"
    /\ pc = "done" /\ pc' = "loaded" =>
          /\ user_average' = user_average
          /\ user_session_counter' = user_session_counter
          /\ \A u \in Users :
                LET opens == OpenRecordsOf(loaded_file'.lines, u)
                IN  IF opens = {}
                    THEN /\ (u \in DOMAIN open_sessions') = (u \in DOMAIN open_sessions)
                         /\ u \in DOMAIN open_sessions =>
                                open_sessions'[u] = open_sessions[u]
                    ELSE /\ u \in DOMAIN open_sessions'
                         /\ open_sessions'[u] = loaded_file'.lines[SetMax(opens)][2]

\* C19: a three-field record whose action is neither open nor close leaves
\* open_sessions, user_average and user_session_counter as they are and the
\* loop goes on to the next record; load_incomplete_sessions skips a record
\* whose action is not open.
C19_OtherActionSkipped == [][C19_Step]_vars

\* The last record of the log carried another action, for a user with a
\* completed session and a pending one, and the file loaded afterwards held a
\* record of that user, with another timestamp, that is not an open record:
\* the pending session is as the log left it.
C19_Witness ==
    /\ pc = "loaded"
    /\ log_line # NoLine
    /\ log_line[3] \notin Actions
    /\ log_line[1] \in DOMAIN user_average
    /\ log_line[1] \in DOMAIN loaded_file.before
    /\ Len(loaded_file.lines) = 1
    /\ loaded_file.lines[1][1] = log_line[1]
    /\ loaded_file.lines[1][3] # "open"
    /\ loaded_file.lines[1][2] # loaded_file.before[log_line[1]]
    /\ open_sessions = loaded_file.before

====
